---- MODULE Spec2Model ----
(***************************************************************************)
(* Model of tensorflow_transform/tf_metadata/dataset_schema.py: the        *)
(* in-memory Schema of a dataset, its conversion to and from feature       *)
(* specs, schema inference from tensors, and Schema.merge.                 *)
(*                                                                         *)
(* Python values are encoded as follows.                                   *)
(*   - An optional value is a sequence of length at most one: None is <<>> *)
(*     and a present value x is <<x>>.                                     *)
(*   - An object is a record whose cls field is its class.                 *)
(*   - A dict is a function from its key set; where iteration order        *)
(*     matters it is given as a sequence of <<key, value>> items.          *)
(*   - A call's outcome is Return(v) or Raise(exc, msg, args), args being  *)
(*     the values formatted into the exception's message.                  *)
(***************************************************************************)
EXTENDS Integers, Sequences, FiniteSets, TLC

VARIABLES column_schemas, op, input, output

vars == <<column_schemas, op, input, output>>

-----------------------------------------------------------------------------
(* Bounds of the model. *)

MaxRank == 2
MaxSize == 3
MaxIndexFields == 2
MaxOther == 2

-----------------------------------------------------------------------------
(* Python encodings. *)

None == <<>>
Some(x) == <<x>>

Return(v) == [ok |-> TRUE, value |-> v]
Raise(exc, msg, args) == [ok |-> FALSE, exc |-> exc, msg |-> msg, args |-> args]

SeqsUpTo(S, n) == UNION {[1..k -> S] : k \in 0..n}

-----------------------------------------------------------------------------
(* Element types. DTypes is the set of type tags the model feeds in; the  *)
(* four lists are the module-level constants of the source.               *)

_BOOL_TYPES == {"bool"}
_INT_TYPES == {"int8", "uint8", "uint16", "int16", "int32", "int64"}
_FLOAT_TYPES == {"float16", "float32", "float64"}
_STRING_TYPES == {"string"}

DTypes == {"bool", "int32", "float32", "string", "complex64"}

DomainClasses == {"FloatDomain", "IntDomain", "StringDomain", "BoolDomain"}

Domain(cls, dtype) == [cls |-> cls, dtype |-> dtype]

Domains == {Domain(c, d) : c \in DomainClasses, d \in DTypes}

_dtype_to_domain(dtype) ==
  IF dtype \in _BOOL_TYPES THEN Return(Domain("BoolDomain", dtype))
  ELSE IF dtype \in _INT_TYPES THEN Return(Domain("IntDomain", dtype))
  ELSE IF dtype \in _STRING_TYPES THEN Return(Domain("StringDomain", dtype))
  ELSE IF dtype \in _FLOAT_TYPES THEN Return(Domain("FloatDomain", dtype))
  ELSE Raise("ValueError", "DatasetSchema does not yet support dtype: {}",
             {[kind |-> "dtype", dtype |-> dtype]})

-----------------------------------------------------------------------------
(* Axis, LogicalShape, TensorShape. *)

Sizes == {None} \cup {Some(n) : n \in 1..MaxSize}

Axis(size) == [size |-> size]

Axes == {Axis(s) : s \in Sizes}

LogicalShape(axes) == [axes |-> axes]

LogicalShapes ==
  {LogicalShape(None)} \cup {LogicalShape(Some(a)) : a \in SeqsUpTo(Axes, MaxRank)}

(* A TensorShape is its dims: None for unknown rank, else the list of its  *)
(* sizes. tf.TensorShape(x) of a list x, or of None, has x as its dims, so *)
(* a shape argument (a list or None) is given as the dims it converts to.  *)
TensorShapes == {None} \cup {Some(d) : d \in SeqsUpTo(Sizes, MaxRank)}

tf_shape(shape) ==
  IF shape.axes = None THEN None
  ELSE Some([i \in DOMAIN shape.axes[1] |-> shape.axes[1][i].size])

(* Mutant: only the presence of the axes is tested, not their sizes. *)
is_fixed_size_axes_only(shape) == shape.axes # None

is_fixed_size(shape) ==
  IF shape.axes = None THEN FALSE
  ELSE \A i \in DOMAIN shape.axes[1] : shape.axes[1][i].size # None

(* Mutant: the rank is tested but the batch axis is not removed. *)
_tf_shape_to_logical_shape_keep_batch(dims, remove_batch_dimension) ==
  IF dims = None THEN Return(LogicalShape(None))
  ELSE LET axes == [i \in DOMAIN dims[1] |-> Axis(dims[1][i])]
       IN  IF remove_batch_dimension /\ Len(axes) < 1
           THEN Raise("ValueError", "Expected tf_shape to have rank >= 1", {})
           ELSE Return(LogicalShape(Some(axes)))

_tf_shape_to_logical_shape(dims, remove_batch_dimension) ==
  IF dims = None THEN Return(LogicalShape(None))
  ELSE LET axes == [i \in DOMAIN dims[1] |-> Axis(dims[1][i])]
       IN  IF remove_batch_dimension
           THEN IF Len(axes) < 1
                THEN Raise("ValueError", "Expected tf_shape to have rank >= 1", {})
                ELSE Return(LogicalShape(Some(Tail(axes))))
           ELSE Return(LogicalShape(Some(axes)))

-----------------------------------------------------------------------------
(* Column representations and column schemas. *)

DefaultValues == {None, Some(0), Some(1)}

IndexFieldNames == {"idx", "idy"}
ValueFieldNames == {"val", "val2"}

SparseIndexField(name, is_sorted) == [name |-> name, is_sorted |-> is_sorted]

SparseIndexFields == {SparseIndexField(n, b) : n \in IndexFieldNames, b \in BOOLEAN}

FixedColumnRepresentation(default_value) ==
  [cls |-> "FixedColumnRepresentation", default_value |-> default_value]

ListColumnRepresentation == [cls |-> "ListColumnRepresentation"]

SparseColumnRepresentation(value_field_name, index_fields) ==
  [cls |-> "SparseColumnRepresentation",
   value_field_name |-> value_field_name, index_fields |-> index_fields]

FixedRepresentations == {FixedColumnRepresentation(d) : d \in DefaultValues}

SparseRepresentations ==
  {SparseColumnRepresentation(v, ind) :
     v \in ValueFieldNames, ind \in SeqsUpTo(SparseIndexFields, MaxIndexFields)}

Representations ==
  FixedRepresentations \cup {ListColumnRepresentation} \cup SparseRepresentations

(* The representations of the columns that are converted: every length of  *)
(* index_fields, over two index fields.                                    *)
ColumnRepresentations ==
  FixedRepresentations \cup {ListColumnRepresentation}
  \cup {SparseColumnRepresentation("val", ind) :
          ind \in SeqsUpTo({SparseIndexField("idx", TRUE), SparseIndexField("idy", FALSE)},
                           MaxIndexFields)}

LogicalColumnSchema(domain, shape) == [domain |-> domain, shape |-> shape]

(* The shape of a logical column may itself be None (line 295 tests it). *)
(* The domains of the columns that are converted: one of each class built  *)
(* as _dtype_to_domain builds it, one whose class does not match its tag,  *)
(* one whose tag is not supported.                                         *)
ColumnDomains ==
  {Domain("BoolDomain", "bool"), Domain("IntDomain", "int32"),
   Domain("FloatDomain", "float32"), Domain("StringDomain", "string"),
   Domain("IntDomain", "float32"), Domain("FloatDomain", "complex64")}

LogicalColumnSchemas ==
  {LogicalColumnSchema(d, s) : d \in ColumnDomains, s \in LogicalShapes \cup {None}}

ColumnSchema(logical_column, representation) ==
  [logical_column |-> logical_column, representation |-> representation]

ColumnSchemas ==
  {ColumnSchema(l, r) : l \in LogicalColumnSchemas, r \in ColumnRepresentations}

Schema(cols) == [column_schemas |-> cols]

-----------------------------------------------------------------------------
(* Feature specs (parser descriptors) and placeholders. *)

(* The shape of a FixedLenFeature is a list of sizes or None, hence an     *)
(* optional value: Some(list) or None.                                     *)
FixedLenFeature(shape, dtype, default_value) ==
  [cls |-> "FixedLenFeature", shape |-> shape, dtype |-> dtype,
   default_value |-> default_value]

VarLenFeature(dtype) == [cls |-> "VarLenFeature", dtype |-> dtype]

SparseFeature(index_key, value_key, dtype, size, already_sorted) ==
  [cls |-> "SparseFeature", index_key |-> index_key, value_key |-> value_key,
   dtype |-> dtype, size |-> size, already_sorted |-> already_sorted]

FixedLenSequenceFeature(shape, dtype) ==
  [cls |-> "FixedLenSequenceFeature", shape |-> shape, dtype |-> dtype]

(* Any object that is none of the four feature classes. *)
OtherFeature == [cls |-> "object"]

placeholder(dtype, shape) == [cls |-> "Tensor", dtype |-> dtype, shape |-> shape]

sparse_placeholder(dtype, shape) ==
  [cls |-> "SparseTensor", dtype |-> dtype, shape |-> shape]

(* TensorShape.as_list() raises on a shape of unknown rank. *)
as_list(dims) ==
  IF dims = None
  THEN Raise("ValueError", "as_list() is not defined on an unknown TensorShape.", {})
  ELSE Return(dims[1])

NoAttribute(name) ==
  Raise("AttributeError", "'NoneType' object has no attribute '{}'",
        {[kind |-> "attribute", attribute |-> name]})

(* Mutant: the default value is not passed on to the descriptor. *)
FixedColumnRepresentation_as_feature_spec_no_default(self, logical_column) ==
  IF logical_column.shape = None \/ ~is_fixed_size(logical_column.shape)
  THEN Raise("ValueError",
             "A column of unknown size cannot be represented as fixed-size.", {})
  ELSE Return(FixedLenFeature(Some(as_list(tf_shape(logical_column.shape)).value),
                              logical_column.domain.dtype,
                              None))

FixedColumnRepresentation_as_feature_spec(self, logical_column) ==
  IF logical_column.shape = None \/ ~is_fixed_size(logical_column.shape)
  THEN Raise("ValueError",
             "A column of unknown size cannot be represented as fixed-size.", {})
  ELSE Return(FixedLenFeature(Some(as_list(tf_shape(logical_column.shape)).value),
                              logical_column.domain.dtype,
                              self.default_value))

FixedColumnRepresentation_as_batched_placeholder(self, logical_column) ==
  IF logical_column.shape = None \/ ~is_fixed_size(logical_column.shape)
  THEN Raise("ValueError",
             "A column of unknown size cannot be represented as fixed-size.", {})
  ELSE Return(placeholder(logical_column.domain.dtype,
                          <<None>> \o as_list(tf_shape(logical_column.shape)).value))

ListColumnRepresentation_as_feature_spec(self, logical_column) ==
  Return(VarLenFeature(logical_column.domain.dtype))

ListColumnRepresentation_as_batched_placeholder(self, logical_column) ==
  IF logical_column.shape = None THEN NoAttribute("tf_shape")
  ELSE LET l == as_list(tf_shape(logical_column.shape))
       IN  IF ~l.ok THEN l
           ELSE Return(sparse_placeholder(logical_column.domain.dtype,
                                          <<None>> \o l.value))

SparseColumnRepresentation_as_feature_spec(self, logical_column) ==
  LET ind == self.index_fields
      unsupported ==
        Raise("ValueError", "tf.Example parser supports only 1-d sparse features.", {})
  IN  IF Len(ind) # 1 THEN unsupported
      ELSE IF logical_column.shape = None THEN NoAttribute("axes")
      ELSE IF logical_column.shape.axes = None
      THEN Raise("TypeError", "object of type 'NoneType' has no len()", {})
      ELSE IF Len(logical_column.shape.axes[1]) # 1 THEN unsupported
      ELSE Return(SparseFeature(ind[1].name,
                                self.value_field_name,
                                logical_column.domain.dtype,
                                logical_column.shape.axes[1][1].size,
                                ind[1].is_sorted))

SparseColumnRepresentation_as_batched_placeholder(self, logical_column) ==
  IF logical_column.shape = None THEN NoAttribute("tf_shape")
  ELSE LET l == as_list(tf_shape(logical_column.shape))
       IN  IF ~l.ok THEN l
           ELSE Return(sparse_placeholder(logical_column.domain.dtype,
                                          <<None>> \o l.value))

ColumnSchema_as_feature_spec(self) ==
  LET rep == self.representation
  IN  IF rep.cls = "FixedColumnRepresentation"
      THEN FixedColumnRepresentation_as_feature_spec(rep, self.logical_column)
      ELSE IF rep.cls = "ListColumnRepresentation"
      THEN ListColumnRepresentation_as_feature_spec(rep, self.logical_column)
      ELSE SparseColumnRepresentation_as_feature_spec(rep, self.logical_column)

ColumnSchema_as_batched_placeholder(self) ==
  LET rep == self.representation
  IN  IF rep.cls = "FixedColumnRepresentation"
      THEN FixedColumnRepresentation_as_batched_placeholder(rep, self.logical_column)
      ELSE IF rep.cls = "ListColumnRepresentation"
      THEN ListColumnRepresentation_as_batched_placeholder(rep, self.logical_column)
      ELSE SparseColumnRepresentation_as_batched_placeholder(rep, self.logical_column)

-----------------------------------------------------------------------------
(* Dicts. Items(d) is the set of orders in which d.items() may iterate.    *)

Injective(f) == \A i, j \in DOMAIN f : f[i] = f[j] => i = j

Orders(K) == {o \in [1..Cardinality(K) -> K] : Injective(o)}

Items(d) == {[i \in DOMAIN o |-> <<o[i], d[o[i]]>>] : o \in Orders(DOMAIN d)}

Keys(items) == {items[i][1] : i \in DOMAIN items}

Dict(items) ==
  [k \in Keys(items) |-> items[CHOOSE i \in DOMAIN items : items[i][1] = k][2]]

EmptyDict == [k \in {} |-> None]

Min(S) == CHOOSE x \in S : \A y \in S : x <= y

(* A comprehension {key: f(value) for key, value in items}: the outcomes   *)
(* r[i] of f in iteration order; the first that raises ends the call.      *)
Comprehension(items, r) ==
  LET bad == {i \in DOMAIN items : ~r[i].ok}
  IN  IF bad # {} THEN r[Min(bad)]
      ELSE Return([k \in Keys(items) |->
                     r[CHOOSE i \in DOMAIN items : items[i][1] = k].value])

-----------------------------------------------------------------------------
(* Converters. *)

_from_parse_feature(parse_feature) ==
  IF parse_feature.cls = "FixedLenFeature"
  THEN LET domain == _dtype_to_domain(parse_feature.dtype)
           shape == _tf_shape_to_logical_shape(parse_feature.shape, FALSE)
       IN  IF ~domain.ok THEN domain
           ELSE IF ~shape.ok THEN shape
           ELSE Return(ColumnSchema(
                  LogicalColumnSchema(domain.value, shape.value),
                  FixedColumnRepresentation(parse_feature.default_value)))
  ELSE IF parse_feature.cls = "FixedLenSequenceFeature"
  THEN Raise("ValueError",
             "DatasetSchema does not support FixedLenSequenceFeature yet.", {})
  ELSE IF parse_feature.cls = "VarLenFeature"
  THEN LET var_len_shape == LogicalShape(Some(<<Axis(None)>>))
           domain == _dtype_to_domain(parse_feature.dtype)
       IN  IF ~domain.ok THEN domain
           ELSE Return(ColumnSchema(
                  LogicalColumnSchema(domain.value, var_len_shape),
                  ListColumnRepresentation))
  ELSE IF parse_feature.cls = "SparseFeature"
  THEN LET sparse_shape == LogicalShape(Some(<<Axis(parse_feature.size)>>))
           domain == _dtype_to_domain(parse_feature.dtype)
           index_field == SparseIndexField(parse_feature.index_key,
                                           parse_feature.already_sorted)
       IN  IF ~domain.ok THEN domain
           ELSE Return(ColumnSchema(
                  LogicalColumnSchema(domain.value, sparse_shape),
                  SparseColumnRepresentation(parse_feature.value_key,
                                             <<index_field>>)))
  ELSE Raise("ValueError", "Cannot interpret feature spec: {}",
             {[kind |-> "descriptor", descriptor |-> parse_feature]})

(* feature_spec is given as its items in iteration order. *)
from_feature_spec(feature_spec) ==
  LET r == Comprehension(feature_spec,
             [i \in DOMAIN feature_spec |-> _from_parse_feature(feature_spec[i][2])])
  IN  IF ~r.ok THEN r ELSE Return(Schema(r.value))

(* self_items: the schema's column_schemas.items() in iteration order. *)
Schema_as_feature_spec(self_items) ==
  Comprehension(self_items,
    [i \in DOMAIN self_items |-> ColumnSchema_as_feature_spec(self_items[i][2])])

Schema_as_batched_placeholders(self_items) ==
  Comprehension(self_items,
    [i \in DOMAIN self_items |-> ColumnSchema_as_batched_placeholder(self_items[i][2])])

(* A tensor is its class, its dtype and the dims of its static shape. *)
Tensor(cls, dtype, shape) == [cls |-> cls, dtype |-> dtype, shape |-> shape]

infer_column_schema_from_tensor(tensor) ==
  IF tensor.cls = "SparseTensor"
  THEN LET var_len_shape == LogicalShape(Some(<<Axis(None)>>))
           domain == _dtype_to_domain(tensor.dtype)
       IN  IF ~domain.ok THEN domain
           ELSE Return(ColumnSchema(
                  LogicalColumnSchema(domain.value, var_len_shape),
                  ListColumnRepresentation))
  ELSE LET domain == _dtype_to_domain(tensor.dtype)
           shape == _tf_shape_to_logical_shape(tensor.shape, TRUE)
       IN  IF ~domain.ok THEN domain
           ELSE IF ~shape.ok THEN shape
           ELSE Return(ColumnSchema(
                  LogicalColumnSchema(domain.value, shape.value),
                  FixedColumnRepresentation(None)))

-----------------------------------------------------------------------------
(* The __eq__ methods. x.__eq__(y) answers NotImplemented when y is not an *)
(* instance of x's class; the reflected call then answers the same and     *)
(* Python falls back to identity, which is False for two distinct objects. *)

Axis_eq(self, other) == self.size = other.size

LogicalShape_eq(self, other) ==
  IF self.axes = None \/ other.axes = None
  THEN self.axes = None /\ other.axes = None
  ELSE /\ Len(self.axes[1]) = Len(other.axes[1])
       /\ \A i \in DOMAIN self.axes[1] : Axis_eq(self.axes[1][i], other.axes[1][i])

(* Mutant: the class of other is not tested. *)
Domain_eq_dtype_only(self, other) == self.dtype = other.dtype

Domain_eq(self, other) ==
  IF other.cls = self.cls
  THEN self.dtype = other.dtype
  ELSE FALSE

SparseIndexField_eq(self, other) ==
  self.name = other.name /\ self.is_sorted = other.is_sorted

ColumnRepresentation_eq(self, other) ==
  IF other.cls = self.cls
  THEN IF self.cls = "FixedColumnRepresentation"
       THEN self.default_value = other.default_value
       ELSE IF self.cls = "ListColumnRepresentation"
       THEN TRUE
       ELSE /\ self.value_field_name = other.value_field_name
            /\ Len(self.index_fields) = Len(other.index_fields)
            /\ \A i \in DOMAIN self.index_fields :
                 SparseIndexField_eq(self.index_fields[i], other.index_fields[i])
  ELSE FALSE

LogicalColumnSchema_eq(self, other) ==
  /\ Domain_eq(self.domain, other.domain)
  /\ IF self.shape = None \/ other.shape = None
     THEN self.shape = None /\ other.shape = None
     ELSE LogicalShape_eq(self.shape, other.shape)

ColumnSchema_eq(self, other) ==
  /\ LogicalColumnSchema_eq(self.logical_column, other.logical_column)
  /\ ColumnRepresentation_eq(self.representation, other.representation)

Schema_eq(self, other) ==
  /\ DOMAIN self.column_schemas = DOMAIN other.column_schemas
  /\ \A k \in DOMAIN self.column_schemas :
       ColumnSchema_eq(self.column_schemas[k], other.column_schemas[k])

-----------------------------------------------------------------------------
(* Schema.merge. *)

(* Mutant: the column-level merge silently keeps the receiver's column. *)
ColumnSchema_merge_keep_self(self, other) == Return(None)

ColumnSchema_merge(self, other) ==
  Raise("NotImplementedError", "Merge not implemented yet.", {})

(* The loop of Schema.merge from item i on: the receiver's dict when the   *)
(* call ends, and how it ends.                                             *)
RECURSIVE MergeLoop(_, _, _)
MergeLoop(cols, other_items, i) ==
  IF i > Len(other_items) THEN [cols |-> cols, outcome |-> Return(None)]
  ELSE LET key == other_items[i][1]
           value == other_items[i][2]
       IN  IF key \in DOMAIN cols
           THEN LET r == ColumnSchema_merge(cols[key], value)
                IN  IF ~r.ok THEN [cols |-> cols, outcome |-> r]
                    ELSE MergeLoop(cols, other_items, i + 1)
           ELSE MergeLoop([k \in DOMAIN cols \cup {key} |->
                             IF k = key THEN value ELSE cols[k]],
                          other_items, i + 1)

(* Mutant: the loop misses the first item of other. *)
Schema_merge_skip_first(cols, other_items) == MergeLoop(cols, other_items, 2)

Schema_merge(cols, other_items) == MergeLoop(cols, other_items, 1)

-----------------------------------------------------------------------------
(* The schema state machine: one receiver Schema, merged into and queried. *)

ColumnNames == {"a", "b", "c"}

IntD == Domain("IntDomain", "int32")
FloatD == Domain("FloatDomain", "float32")
StringD == Domain("StringDomain", "string")

Shape1(size) == LogicalShape(Some(<<Axis(size)>>))

SampleColumns ==
  { ColumnSchema(LogicalColumnSchema(IntD, Shape1(Some(2))),
                 FixedColumnRepresentation(None)),
    ColumnSchema(LogicalColumnSchema(FloatD, Shape1(None)),
                 FixedColumnRepresentation(Some(0))),
    ColumnSchema(LogicalColumnSchema(StringD, Shape1(None)),
                 ListColumnRepresentation),
    ColumnSchema(LogicalColumnSchema(IntD, Shape1(Some(2))),
                 ListColumnRepresentation),
    ColumnSchema(LogicalColumnSchema(Domain("IntDomain", "float32"), Shape1(None)),
                 ListColumnRepresentation),
    ColumnSchema(LogicalColumnSchema(FloatD, Shape1(Some(2))),
                 SparseColumnRepresentation("val",
                    <<SparseIndexField("idx", TRUE)>>)),
    ColumnSchema(LogicalColumnSchema(FloatD, Shape1(Some(2))),
                 SparseColumnRepresentation("val",
                    <<SparseIndexField("idx", TRUE), SparseIndexField("idy", FALSE)>>)) }

MergeColumns ==
  { ColumnSchema(LogicalColumnSchema(IntD, Shape1(Some(2))),
                 FixedColumnRepresentation(None)),
    ColumnSchema(LogicalColumnSchema(StringD, Shape1(None)),
                 ListColumnRepresentation) }

InitColumns ==
  MergeColumns \cup
  { ColumnSchema(LogicalColumnSchema(FloatD, Shape1(None)),
                 FixedColumnRepresentation(Some(0))),
    ColumnSchema(LogicalColumnSchema(FloatD, Shape1(Some(2))),
                 SparseColumnRepresentation("val",
                    <<SparseIndexField("idx", TRUE)>>)) }

DictsOver(K, V) == UNION {[D -> V] : D \in SUBSET K}

OtherDicts ==
  {d \in DictsOver(ColumnNames, MergeColumns) : Cardinality(DOMAIN d) <= MaxOther}

Init ==
  /\ column_schemas \in DictsOver(ColumnNames, InitColumns)
  /\ op = "Schema"
  /\ input = None
  /\ output = None

(* self.merge(other), other a distinct Schema. *)
Merge ==
  \E other \in OtherDicts : \E other_items \in Items(other) :
    LET m == Schema_merge(column_schemas, other_items)
    IN  /\ op' = "merge"
        /\ input' = [self |-> column_schemas, other |-> other_items, alias |-> FALSE]
        /\ column_schemas' = m.cols
        /\ output' = m.outcome

(* self.merge(self). *)
MergeSelf ==
  \E other_items \in Items(column_schemas) :
    LET m == Schema_merge(column_schemas, other_items)
    IN  /\ op' = "merge"
        /\ input' = [self |-> column_schemas, other |-> other_items, alias |-> TRUE]
        /\ column_schemas' = m.cols
        /\ output' = m.outcome

AsFeatureSpec ==
  \E self_items \in Items(column_schemas) :
    /\ op' = "as_feature_spec"
    /\ input' = self_items
    /\ output' = Schema_as_feature_spec(self_items)
    /\ UNCHANGED column_schemas

AsBatchedPlaceholders ==
  \E self_items \in Items(column_schemas) :
    /\ op' = "as_batched_placeholders"
    /\ input' = self_items
    /\ output' = Schema_as_batched_placeholders(self_items)
    /\ UNCHANGED column_schemas

Next == Merge \/ MergeSelf \/ AsFeatureSpec \/ AsBatchedPlaceholders

Spec == Init /\ [][Next]_vars

-----------------------------------------------------------------------------
(* The module-level functions and the per-column methods, each applied to  *)
(* inputs drawn from the bounded sets above. No Schema is merged into, so  *)
(* column_schemas stays empty.                                             *)

Tensors ==
  {Tensor(c, d, s) : c \in {"Tensor", "SparseTensor"}, d \in DTypes, s \in TensorShapes}

ParseFeatures ==
  {FixedLenFeature(s, d, v) : s \in TensorShapes, d \in DTypes, v \in DefaultValues}
  \cup {VarLenFeature(d) : d \in DTypes}
  \cup {SparseFeature(i, v, d, n, b) :
          i \in IndexFieldNames, v \in ValueFieldNames, d \in DTypes,
          n \in Sizes, b \in BOOLEAN}
  \cup {FixedLenSequenceFeature(Some(<<>>), d) : d \in DTypes}
  \cup {OtherFeature}

SampleFeatures ==
  {FixedLenFeature(Some(<<Some(1)>>), d, None) : d \in {"int32", "complex64"}}
  \cup {VarLenFeature(d) : d \in {"int32", "complex64"}}
  \cup {FixedLenSequenceFeature(Some(<<>>), "int32"), OtherFeature}

(* Feature specs of one column over all features, of two over the samples. *)
FeatureSpecs ==
  {("a" :> f) : f \in ParseFeatures}
  \cup {d \in DictsOver(ColumnNames, SampleFeatures) : Cardinality(DOMAIN d) = 2}

(* Schemas of one column over all columns, of two over the samples. *)
Schemas ==
  {("a" :> c) : c \in ColumnSchemas}
  \cup {d \in DictsOver(ColumnNames, SampleColumns) : Cardinality(DOMAIN d) = 2}

EqColumns ==
  {ColumnSchema(LogicalColumnSchema(d, s), r) :
     d \in {IntD, FloatD},
     s \in {None, Shape1(None), Shape1(Some(2))},
     r \in {FixedColumnRepresentation(None), ListColumnRepresentation,
            SparseColumnRepresentation("val", <<SparseIndexField("idx", TRUE)>>)}}

(* The columns that differ from c in at most one of its three parts. *)
Neighbours(c) ==
  {ColumnSchema(LogicalColumnSchema(d, c.logical_column.shape), c.representation) :
     d \in Domains}
  \cup {ColumnSchema(LogicalColumnSchema(c.logical_column.domain, s), c.representation) :
          s \in LogicalShapes \cup {None}}
  \cup {ColumnSchema(c.logical_column, r) : r \in Representations}

EqPairs ==
  {<<c, c>> : c \in ColumnSchemas}
  \cup UNION {{<<c, n>> : n \in Neighbours(c)} : c \in EqColumns}
  \cup UNION {{<<n, c>> : n \in Neighbours(c)} : c \in EqColumns}
  \cup (SampleColumns \X SampleColumns)

(* A call is pending while output is None. *)
Calls ==
  [op : {"_tf_shape_to_logical_shape"},
   input : [tf_shape : TensorShapes, remove_batch_dimension : BOOLEAN]]
  \cup [op : {"ColumnSchema.as_feature_spec", "ColumnSchema.as_batched_placeholder"},
        input : ColumnSchemas]
  \cup [op : {"Schema.as_feature_spec"}, input : UNION {Items(d) : d \in Schemas}]
  \cup [op : {"from_feature_spec"}, input : UNION {Items(d) : d \in FeatureSpecs}]
  \cup [op : {"infer_column_schema_from_tensor"}, input : Tensors]
  \cup [op : {"Domain.__eq__"}, input : [self : Domains, other : Domains]]
  \cup [op : {"ColumnRepresentation.__eq__"},
        input : [self : Representations, other : Representations]]
  \cup {[op |-> "ColumnSchema.__eq__", input |-> [self |-> p[1], other |-> p[2]]] :
          p \in EqPairs}

InitFn ==
  /\ column_schemas = EmptyDict
  /\ \E c \in Calls : op = c.op /\ input = c.input
  /\ output = None

Pending(name) == op = name /\ output = None

Done(name) == op = name /\ output # None

TfShapeToLogicalShape ==
  /\ Pending("_tf_shape_to_logical_shape")
  /\ output' = _tf_shape_to_logical_shape(input.tf_shape, input.remove_batch_dimension)
  /\ UNCHANGED <<column_schemas, op, input>>

ColumnAsFeatureSpec ==
  /\ Pending("ColumnSchema.as_feature_spec")
  /\ output' = ColumnSchema_as_feature_spec(input)
  /\ UNCHANGED <<column_schemas, op, input>>

ColumnAsBatchedPlaceholder ==
  /\ Pending("ColumnSchema.as_batched_placeholder")
  /\ output' = ColumnSchema_as_batched_placeholder(input)
  /\ UNCHANGED <<column_schemas, op, input>>

SchemaAsFeatureSpec ==
  /\ Pending("Schema.as_feature_spec")
  /\ output' = Schema_as_feature_spec(input)
  /\ UNCHANGED <<column_schemas, op, input>>

FromFeatureSpec ==
  /\ Pending("from_feature_spec")
  /\ output' = from_feature_spec(input)
  /\ UNCHANGED <<column_schemas, op, input>>

InferColumnSchemaFromTensor ==
  /\ Pending("infer_column_schema_from_tensor")
  /\ output' = infer_column_schema_from_tensor(input)
  /\ UNCHANGED <<column_schemas, op, input>>

DomainEq ==
  /\ Pending("Domain.__eq__")
  /\ output' = Return(Domain_eq(input.self, input.other))
  /\ UNCHANGED <<column_schemas, op, input>>

ColumnRepresentationEq ==
  /\ Pending("ColumnRepresentation.__eq__")
  /\ output' = Return(ColumnRepresentation_eq(input.self, input.other))
  /\ UNCHANGED <<column_schemas, op, input>>

ColumnSchemaEq ==
  /\ Pending("ColumnSchema.__eq__")
  /\ output' = Return(ColumnSchema_eq(input.self, input.other))
  /\ UNCHANGED <<column_schemas, op, input>>

NextFn ==
  \/ TfShapeToLogicalShape
  \/ ColumnAsFeatureSpec
  \/ ColumnAsBatchedPlaceholder
  \/ SchemaAsFeatureSpec
  \/ FromFeatureSpec
  \/ InferColumnSchemaFromTensor
  \/ DomainEq
  \/ ColumnRepresentationEq
  \/ ColumnSchemaEq

SpecFn == InitFn /\ [][NextFn]_vars

-----------------------------------------------------------------------------
(* Properties of Schema.merge, checked under Spec. *)

Merged == op = "merge"

Overlap == DOMAIN input.self \cap Keys(input.other) # {}

(* C2: a merge with a schema none of whose column names is in the receiver *)
(* returns normally and leaves the receiver holding exactly the union of   *)
(* the two mappings, each column mapped as before, its size the sum of the *)
(* two sizes; this holds after any sequence of merges.                     *)
MergeDisjointIsUnion ==
  (Merged /\ ~Overlap) =>
    /\ output = Return(None)
    /\ DOMAIN column_schemas = DOMAIN input.self \cup Keys(input.other)
    /\ \A k \in DOMAIN input.self : column_schemas[k] = input.self[k]
    /\ \A i \in DOMAIN input.other : column_schemas[input.other[i][1]] = input.other[i][2]
    /\ Cardinality(DOMAIN column_schemas) =
         Cardinality(DOMAIN input.self) + Len(input.other)

MergeDisjointWitness ==
  /\ Merged /\ ~Overlap
  /\ input.self # EmptyDict
  /\ Len(input.other) = 2
  /\ Cardinality(DOMAIN column_schemas) = 3

(* C3: a merge with a schema that shares a column name with the receiver   *)
(* ends in an error, also when the shared columns are equal and when other *)
(* is the non-empty receiver itself.                                       *)
MergeOverlapRaises ==
  (Merged /\ Overlap) =>
    /\ ~output.ok
    /\ output.exc = "NotImplementedError"

MergeOverlapWitness ==
  /\ Merged /\ Overlap /\ ~output.ok
  /\ ~input.alias
  /\ \E i \in DOMAIN input.other :
       /\ input.other[i][1] \in DOMAIN input.self
       /\ input.other[i][2] = input.self[input.other[i][1]]

(* C10: a merge that fails leaves the receiver's mapping as it was before  *)
(* the call, for every iteration order of other's columns.                 *)
MergeFailureAtomic ==
  (Merged /\ ~output.ok) => column_schemas = input.self

-----------------------------------------------------------------------------
(* Properties of the functions and per-column methods, checked under       *)
(* SpecFn.                                                                 *)

RankError == Raise("ValueError", "Expected tf_shape to have rank >= 1", {})

(* C4: with remove_batch_dimension the call fails with the rank error on a *)
(* shape of rank 0 and on a shape of unknown rank, and on a shape of known *)
(* rank n >= 1 returns the last n-1 sizes in order; without it the call    *)
(* never fails and keeps every axis (axes absent for unknown rank).        *)
TfShapeToLogicalShapeContract ==
  Done("_tf_shape_to_logical_shape") =>
    LET dims == input.tf_shape
    IN  IF input.remove_batch_dimension
        THEN IF dims = None \/ Len(dims[1]) = 0
             THEN output = RankError
             ELSE /\ output.ok
                  /\ output.value.axes # None
                  /\ Len(output.value.axes[1]) = Len(dims[1]) - 1
                  /\ \A i \in 1..(Len(dims[1]) - 1) :
                       output.value.axes[1][i] = Axis(dims[1][i + 1])
        ELSE /\ output.ok
             /\ IF dims = None THEN output.value.axes = None
                ELSE /\ output.value.axes # None
                     /\ Len(output.value.axes[1]) = Len(dims[1])
                     /\ \A i \in DOMAIN dims[1] :
                          output.value.axes[1][i] = Axis(dims[1][i])

IsFixed(c) == c.representation.cls = "FixedColumnRepresentation"
IsList(c) == c.representation.cls = "ListColumnRepresentation"
IsSparse(c) == c.representation.cls = "SparseColumnRepresentation"

(* The known sizes of a shape: axes present and every axis sized. *)
HasFixedSize(shape) ==
  /\ shape # None
  /\ shape.axes # None
  /\ \A i \in DOMAIN shape.axes[1] : shape.axes[1][i].size # None

SizesOf(shape) == [i \in DOMAIN shape.axes[1] |-> shape.axes[1][i].size]

UnknownSizeError ==
  Raise("ValueError", "A column of unknown size cannot be represented as fixed-size.", {})

(* C5: the Fixed representation's as_feature_spec and                      *)
(* as_batched_placeholder fail with the unknown-size error exactly when    *)
(* the shape is not fixed-size; otherwise the first returns the dense      *)
(* descriptor of the sizes in order, the domain's type tag and the default *)
(* value, the second a dense placeholder shaped one unbound axis followed  *)
(* by the sizes.                                                           *)
FixedConversionContract ==
  /\ (Done("ColumnSchema.as_feature_spec") /\ IsFixed(input)) =>
       LET l == input.logical_column
       IN  IF HasFixedSize(l.shape)
           THEN output = Return(FixedLenFeature(Some(SizesOf(l.shape)), l.domain.dtype,
                                                input.representation.default_value))
           ELSE output = UnknownSizeError
  /\ (Done("ColumnSchema.as_batched_placeholder") /\ IsFixed(input)) =>
       LET l == input.logical_column
       IN  IF HasFixedSize(l.shape)
           THEN output = Return(placeholder(l.domain.dtype,
                                            <<None>> \o SizesOf(l.shape)))
           ELSE output = UnknownSizeError

FixedConversionWitness ==
  /\ Done("ColumnSchema.as_batched_placeholder") /\ IsFixed(input)
  /\ output.ok
  /\ Len(output.value.shape) = 3

UnsupportedRankError ==
  Raise("ValueError", "tf.Example parser supports only 1-d sparse features.", {})

OneIndexOneAxis(c) ==
  /\ Len(c.representation.index_fields) = 1
  /\ c.logical_column.shape.axes # None
  /\ Len(c.logical_column.shape.axes[1]) = 1

(* C6: the Sparse representation's as_feature_spec fails with the          *)
(* unsupported-rank error unless there is exactly one index field and      *)
(* exactly one axis (so also when the axes are absent), and otherwise      *)
(* returns the sparse descriptor of the index field's name, the value      *)
(* field name, the type tag, the axis's size and the is_sorted flag.       *)
SparseConversionContract ==
  (/\ Done("ColumnSchema.as_feature_spec")
   /\ IsSparse(input)
   /\ input.logical_column.shape # None) =>
    IF OneIndexOneAxis(input)
    THEN output = Return(SparseFeature(
                    input.representation.index_fields[1].name,
                    input.representation.value_field_name,
                    input.logical_column.domain.dtype,
                    input.logical_column.shape.axes[1][1].size,
                    input.representation.index_fields[1].is_sorted))
    ELSE output = UnsupportedRankError


(* The Domain class the specification assigns to each supported type tag   *)
(* of DTypes.                                                              *)
TagFamily ==
  [bool |-> "BoolDomain", int32 |-> "IntDomain",
   float32 |-> "FloatDomain", string |-> "StringDomain"]

SupportedTag(dtype) == dtype \in DOMAIN TagFamily

(* C7: a sparse value of a supported element type is inferred as a List    *)
(* column of shape [Axis(unknown)] whatever its dense shape; a dense value *)
(* of a supported element type and known rank >= 1 as a Fixed column with  *)
(* no default value, the domain of the type tag and the value's shape      *)
(* without its first axis.                                                 *)
InferContract ==
  (Done("infer_column_schema_from_tensor") /\ SupportedTag(input.dtype)) =>
    LET domain == Domain(TagFamily[input.dtype], input.dtype)
    IN  IF input.cls = "SparseTensor"
        THEN output = Return(ColumnSchema(
                        LogicalColumnSchema(domain, LogicalShape(Some(<<Axis(None)>>))),
                        ListColumnRepresentation))
        ELSE (input.shape # None /\ Len(input.shape[1]) >= 1) =>
               output = Return(ColumnSchema(
                          LogicalColumnSchema(domain,
                            LogicalShape(Some(
                              [i \in 1..(Len(input.shape[1]) - 1) |->
                                 Axis(input.shape[1][i + 1])]))),
                          FixedColumnRepresentation(None)))

(* int32 of shape [batch, 3] gives Int(int32), [Axis(3)], Fixed(None). *)
InferWitness ==
  /\ Done("infer_column_schema_from_tensor")
  /\ input = Tensor("Tensor", "int32", Some(<<None, Some(3)>>))
  /\ output = Return(ColumnSchema(LogicalColumnSchema(IntD, Shape1(Some(3))),
                                  FixedColumnRepresentation(None)))

Carries(err, key, parse_feature) ==
  /\ \E x \in err.args : x.kind = "column" /\ x.column = key
  /\ \E x \in err.args : x.kind = "descriptor" /\ x.descriptor = parse_feature

EntriesOf(classes) == {i \in DOMAIN input : input[i][2].cls \in classes}

(* C8: from_feature_spec fails with the dedicated not-yet-supported error  *)
(* when an entry is a fixed-length-sequence descriptor, with the           *)
(* unsupported-descriptor error when an entry is of another unrecognised   *)
(* kind, and in both cases, as for an unsupported type tag, the error      *)
(* carries the offending column's name and descriptor; no Schema is        *)
(* returned.                                                               *)
FromFeatureSpecErrors ==
  Done("from_feature_spec") =>
    LET sequence == EntriesOf({"FixedLenSequenceFeature"})
        unknown == EntriesOf({"object"})
        badtype == {i \in EntriesOf({"FixedLenFeature", "VarLenFeature", "SparseFeature"}) :
                      ~SupportedTag(input[i][2].dtype)}
    IN  /\ (sequence \cup unknown \cup badtype # {}) =>
             /\ ~output.ok
             /\ \E i \in sequence \cup unknown \cup badtype :
                  Carries(output, input[i][1], input[i][2])
        /\ sequence # {} =>
             /\ ~output.ok
             /\ output.msg = "DatasetSchema does not support FixedLenSequenceFeature yet."
        /\ unknown # {} =>
             /\ ~output.ok
             /\ output.msg = "Cannot interpret feature spec: {}"

(* C9: equality is structural: two ColumnSchema values compare equal       *)
(* exactly when all their fields are the same; two Domains are equal iff   *)
(* they are the same variant with the same type tag; a Fixed, a List and a *)
(* Sparse representation are never equal to one another.                   *)
EqualityIsStructural ==
  /\ Done("ColumnSchema.__eq__") => output = Return(input.self = input.other)
  /\ Done("Domain.__eq__") =>
       output = Return(/\ input.self.cls = input.other.cls
                       /\ input.self.dtype = input.other.dtype)
  /\ Done("ColumnRepresentation.__eq__") =>
       /\ input.self.cls # input.other.cls => output = Return(FALSE)
       /\ output = Return(input.self = input.other)

(* Two Sparse columns that differ only in the index field's sortedness. *)
EqualityWitness ==
  /\ Done("ColumnSchema.__eq__")
  /\ output = Return(FALSE)
  /\ input.self.logical_column = input.other.logical_column
  /\ IsSparse(input.self) /\ IsSparse(input.other)
  /\ input.self.representation.value_field_name =
       input.other.representation.value_field_name
  /\ Len(input.self.representation.index_fields) = 1
  /\ Len(input.other.representation.index_fields) = 1
  /\ input.self.representation.index_fields[1].name =
       input.other.representation.index_fields[1].name
  /\ input.self.representation.index_fields[1].is_sorted #
       input.other.representation.index_fields[1].is_sorted

(* The round trip of the schema whose items are input, through the feature *)
(* spec in output, in whichever order that dict iterates.                  *)
RoundTrips ==
  /\ output.ok
  /\ \A feature_spec \in Items(output.value) :
       LET r == from_feature_spec(feature_spec)
       IN  r.ok /\ Schema_eq(r.value, Schema(Dict(input)))

(* The representation's precondition as the claim states it. *)
Convertible(c) ==
  \/ IsFixed(c) /\ HasFixedSize(c.logical_column.shape)
  \/ IsSparse(c) /\ c.logical_column.shape # None /\ OneIndexOneAxis(c)
  \/ IsList(c) /\ c.logical_column.shape # None

(* C1 as stated: every Schema whose columns are Fixed with a fixed-size    *)
(* shape, Sparse with one index field and one axis, or List with any shape *)
(* and any Domain, round-trips through as_feature_spec and                 *)
(* from_feature_spec.                                                      *)
RoundTripAnyList ==
  (Done("Schema.as_feature_spec") /\ \A i \in DOMAIN input : Convertible(input[i][2]))
    => RoundTrips

DomainMatchesTag(d) == SupportedTag(d.dtype) /\ d.cls = TagFamily[d.dtype]

RoundTrippable(c) ==
  /\ Convertible(c)
  /\ DomainMatchesTag(c.logical_column.domain)
  /\ IsList(c) => c.logical_column.shape = LogicalShape(Some(<<Axis(None)>>))

(* C1 amended: the round trip holds for every Schema whose columns each    *)
(* have the Domain variant of a supported type tag and are Fixed with a    *)
(* fixed-size shape, Sparse with one index field and one axis, or List     *)
(* with the shape of exactly one axis of unknown size.                     *)
RoundTrip ==
  (Done("Schema.as_feature_spec") /\ \A i \in DOMAIN input : RoundTrippable(input[i][2]))
    => RoundTrips

RoundTripWitness ==
  /\ Done("Schema.as_feature_spec")
  /\ \A i \in DOMAIN input : RoundTrippable(input[i][2])
  /\ RoundTrips
  /\ \E i, j \in DOMAIN input : IsList(input[i][2]) /\ IsSparse(input[j][2])

====
